---- MODULE Spec2Model ----
(***************************************************************************)
(* Model of semantic-version-parser (src/src/lib.rs): the tokenizer, the   *)
(* staged parser SemVer::from_str, ZeroPaddedInt, the increment methods,   *)
(* the Display renderer and ComposerChecker::is_valid.                     *)
(*                                                                         *)
(* A string is a sequence of one-character strings.  A u32 is kept as two  *)
(* 16-bit limbs [hi, lo] (value = hi * 65536 + lo) so that the full range  *)
(* 0 .. 4294967295 is represented exactly.                                 *)
(***************************************************************************)
EXTENDS Integers, Sequences, FiniteSets, TLC

----------------------------------------------------------------------------
(* Bounds of the exploration *)
MaxChunks == 4
MaxIncr == 2
MaxExtend == 1

----------------------------------------------------------------------------
(* Characters *)
UpperChars == <<"A","B","C","D","E","F","G","H","I","J","K","L","M",
                "N","O","P","Q","R","S","T","U","V","W","X","Y","Z">>
LowerChars == <<"a","b","c","d","e","f","g","h","i","j","k","l","m",
                "n","o","p","q","r","s","t","u","v","w","x","y","z">>
DigitChars == <<"0","1","2","3","4","5","6","7","8","9">>

Delimiters == {"-", "_", "."}

Range(f) == {f[i] : i \in DOMAIN f}

DigitSet == Range(DigitChars)

\* char::is_numeric, on the characters of the model
IsDigit(c) == c \in DigitSet

DigitValue == [c \in DigitSet |-> (CHOOSE i \in 1..10 : DigitChars[i] = c) - 1]

DigitVal(c) == DigitValue[c]

LowerOf == [c \in Range(UpperChars) |-> LowerChars[CHOOSE i \in 1..26 : UpperChars[i] = c]]

ToLowerChar(c) == IF c \in DOMAIN LowerOf THEN LowerOf[c] ELSE c

\* str::to_lowercase
RECURSIVE to_lowercase(_)
to_lowercase(s) ==
    IF s = <<>> THEN <<>> ELSE <<ToLowerChar(Head(s))>> \o to_lowercase(Tail(s))

----------------------------------------------------------------------------
(* Tokenizer *)

\* The chunks of s from index `from` on, `cuts` being the delimiter positions.
RECURSIVE SplitAt(_, _, _)
SplitAt(s, cuts, from) ==
    LET ahead == {c \in cuts : c >= from}
    IN IF ahead = {} THEN <<SubSeq(s, from, Len(s))>>
       ELSE LET c == CHOOSE x \in ahead : \A y \in ahead : x <= y
            IN <<SubSeq(s, from, c - 1)>> \o SplitAt(s, cuts, c + 1)

\* str::split(&['-', '_', '.']): the chunks between delimiters, empty ones kept;
\* a string without delimiter (the empty string too) is one chunk.
split(s) == SplitAt(s, {i \in 1..Len(s) : s[i] \in Delimiters}, 1)

\* split_alpha_and_number: cut once, before the first numeric character, when
\* that character is not the first one.
split_alpha_and_number(s) ==
    LET numeric == {i \in 1..Len(s) : IsDigit(s[i])}
    IN IF numeric = {} THEN <<s>>
       ELSE LET number_start == CHOOSE i \in numeric : \A j \in numeric : i <= j
            IN IF number_start > 1
               THEN <<SubSeq(s, 1, number_start - 1), SubSeq(s, number_start, Len(s))>>
               ELSE <<s>>

\* .map(|t| t.to_lowercase().to_string())
RECURSIVE LowerEach(_)
LowerEach(pieces) ==
    IF pieces = <<>> THEN <<>>
    ELSE <<to_lowercase(Head(pieces))>> \o LowerEach(Tail(pieces))

\* .flat_map(split_alpha_and_number)
RECURSIVE FlatMapSplit(_)
FlatMapSplit(chunks) ==
    IF chunks = <<>> THEN <<>>
    ELSE split_alpha_and_number(Head(chunks)) \o FlatMapSplit(Tail(chunks))

\* The token list `parts` as first collected by from_str.
Tokens(s) == LowerEach(FlatMapSplit(split(s)))

----------------------------------------------------------------------------
(* Integers: u32 as two 16-bit limbs, i32 as an integer in -2^31 .. 2^31 - 1 *)

LimbBase == 65536
I32Max == 2147483647

U32(hi, lo) == [hi |-> hi, lo |-> lo]
U32Zero == U32(0, 0)
U32Max == U32(LimbBase - 1, LimbBase - 1)

Failed == [ok |-> FALSE, val |-> 0]

\* One step of the decimal accumulation of a u32: acc * 10 + d, or overflow.
U32MulAdd(acc, d) ==
    LET t  == acc.lo * 10 + d
        hi == acc.hi * 10 + (t \div LimbBase)
    IN IF hi >= LimbBase THEN [ok |-> FALSE, val |-> U32Zero]
       ELSE [ok |-> TRUE, val |-> U32(hi, t % LimbBase)]

RECURSIVE U32Digits(_, _, _)
U32Digits(s, i, acc) ==
    IF i > Len(s) THEN [ok |-> TRUE, val |-> acc]
    ELSE IF ~IsDigit(s[i]) THEN [ok |-> FALSE, val |-> U32Zero]
    ELSE LET r == U32MulAdd(acc, DigitVal(s[i]))
         IN IF r.ok THEN U32Digits(s, i + 1, r.val) ELSE r

\* str::parse::<u32>: an optional '+', then at least one decimal digit and
\* nothing else, the value within 0 .. 2^32 - 1.
ParseU32(s) ==
    LET body == IF s # <<>> /\ s[1] = "+" THEN Tail(s) ELSE s
    IN IF body = <<>> THEN [ok |-> FALSE, val |-> U32Zero]
       ELSE U32Digits(body, 1, U32Zero)

\* The accumulation of an i32, kept on the side of its sign so that -2^31 is
\* reached without passing through 2^31.
RECURSIVE I32Digits(_, _, _, _)
I32Digits(s, i, acc, neg) ==
    IF i > Len(s) THEN [ok |-> TRUE, val |-> acc]
    ELSE IF ~IsDigit(s[i]) THEN Failed
    ELSE LET d == DigitVal(s[i])
         IN IF neg
            THEN IF acc < -(I32Max \div 10)
                    \/ (acc = -(I32Max \div 10) /\ d > (I32Max % 10) + 1)
                 THEN Failed
                 ELSE I32Digits(s, i + 1, acc * 10 - d, neg)
            ELSE IF acc > (I32Max - d) \div 10
                 THEN Failed
                 ELSE I32Digits(s, i + 1, acc * 10 + d, neg)

\* str::parse::<i32>: an optional sign, then at least one decimal digit and
\* nothing else, the value within -2^31 .. 2^31 - 1.
ParseI32(s) ==
    LET signed == s # <<>> /\ s[1] \in {"+", "-"}
        body   == IF signed THEN Tail(s) ELSE s
    IN IF body = <<>> THEN Failed
       ELSE I32Digits(body, 1, 0, signed /\ s[1] = "-")

\* u32 divided by ten: quotient and remainder, limb by limb.
U32DivMod10(v) ==
    LET t == (v.hi % 10) * LimbBase + v.lo
    IN [q |-> U32(v.hi \div 10, t \div 10), r |-> t % 10]

RECURSIVE U32Decimal(_)
U32Decimal(v) ==
    LET dm == U32DivMod10(v)
    IN IF dm.q = U32Zero THEN <<DigitChars[dm.r + 1]>>
       ELSE Append(U32Decimal(dm.q), DigitChars[dm.r + 1])

\* u32::to_string
U32ToString(v) == U32Decimal(v)

RECURSIVE NatDecimal(_)
NatDecimal(n) ==
    IF n < 10 THEN <<DigitChars[n + 1]>>
    ELSE Append(NatDecimal(n \div 10), DigitChars[(n % 10) + 1])

\* i32::to_string: a '-' for a negative value, then the digits of the magnitude
\* (the magnitude of n < 0 is m + 1 with m = -(n + 1)).
I32ToString(n) ==
    IF n >= 0 THEN NatDecimal(n)
    ELSE LET m     == -(n + 1)
             last  == ((m % 10) + 1) % 10
             front == (m \div 10) + (IF m % 10 = 9 THEN 1 ELSE 0)
         IN <<"-">> \o (IF front = 0 THEN <<>> ELSE NatDecimal(front))
                    \o <<DigitChars[last + 1]>>

----------------------------------------------------------------------------
(* ZeroPaddedInt *)

ZeroPaddedInt(value, width) == [value |-> value, width |-> width]

\* impl FromStr for ZeroPaddedInt: the value, and the character count of s.
ZeroPaddedInt_from_str(s) ==
    LET r == ParseU32(s)
    IN IF r.ok THEN [ok |-> TRUE, val |-> ZeroPaddedInt(r.val, Len(s))]
       ELSE [ok |-> FALSE, val |-> ZeroPaddedInt(U32Zero, 0)]

\* impl From<u32> for ZeroPaddedInt: the width is the natural digit count.
ZeroPaddedInt_from(value) == ZeroPaddedInt(value, Len(U32ToString(value)))

\* u32 + 1 as the build computes it: the sum when it fits; on overflow the
\* outcomes are "panic" (overflow checks on) and "wrap" (overflow checks off).
U32AddOne(v, onOverflow) ==
    IF v.lo < LimbBase - 1 THEN [ok |-> TRUE, val |-> U32(v.hi, v.lo + 1)]
    ELSE IF v.hi < LimbBase - 1 THEN [ok |-> TRUE, val |-> U32(v.hi + 1, 0)]
    ELSE IF onOverflow = "wrap" THEN [ok |-> TRUE, val |-> U32Zero]
    ELSE [ok |-> FALSE, val |-> U32Zero]

\* impl Add<u32> for ZeroPaddedInt, with rhs = 1: the width is copied.
ZeroPaddedInt_add(z, onOverflow) ==
    LET r == U32AddOne(z.value, onOverflow)
    IN [ok |-> r.ok, val |-> ZeroPaddedInt(r.val, z.width)]

\* Variant: the value without its padding.
ZeroPaddedInt_fmt_unpadded(z) == U32ToString(z.value)

\* Variant: the padded text cut to z.width characters.
ZeroPaddedInt_fmt_truncated(z) ==
    LET digits == U32ToString(z.value)
        pad    == IF z.width > Len(digits) THEN z.width - Len(digits) ELSE 0
        text   == [i \in 1..pad |-> "0"] \o digits
    IN SubSeq(text, Len(text) - z.width + 1, Len(text))

\* impl Display for ZeroPaddedInt: "{:0width$}".
ZeroPaddedInt_fmt(z) ==
    LET digits == U32ToString(z.value)
        pad    == IF z.width > Len(digits) THEN z.width - Len(digits) ELSE 0
    IN [i \in 1..pad |-> "0"] \o digits

----------------------------------------------------------------------------
(* The vocabularies *)

NoPrefix == [some |-> FALSE, prefix |-> "V"]
SomePrefix(p) == [some |-> TRUE, prefix |-> p]

\* SemVerPrefix::from_str (strum, ascii_case_insensitive)
SemVerPrefix_from_str(t) ==
    IF to_lowercase(t) = <<"v">> THEN SomePrefix("V") ELSE NoPrefix

\* SemVerPrefix Display (serialize_all = "lowercase")
SemVerPrefix_to_string(p) == <<"v">>

SuffixNames == <<"Dev", "Patch", "P", "Alpha", "A", "Beta", "B", "RC">>

\* The text each SemVerSuffix variant is parsed from, lower-cased.
SuffixKeys == <<<<"d", "e", "v">>, <<"p", "a", "t", "c", "h">>, <<"p">>, <<"a", "l", "p", "h", "a">>, <<"a">>, <<"b", "e", "t", "a">>, <<"b">>, <<"r", "c">>>>

\* The text each SemVerSuffix variant displays as.
SuffixTexts == <<<<"d", "e", "v">>, <<"p", "a", "t", "c", "h">>, <<"p">>, <<"a", "l", "p", "h", "a">>, <<"a">>, <<"b", "e", "t", "a">>, <<"b">>, <<"R", "C">>>>

NoMarker == [some |-> FALSE, suffix |-> "P"]
SomeMarker(m) == [some |-> TRUE, suffix |-> m]

\* SemVerSuffix::from_str (strum, ascii_case_insensitive)
SemVerSuffix_from_str(t) ==
    LET hits == {i \in 1..Len(SuffixKeys) : SuffixKeys[i] = to_lowercase(t)}
    IN IF hits = {} THEN NoMarker
       ELSE SomeMarker(SuffixNames[CHOOSE i \in hits : TRUE])

\* Variant: every variant displayed in lower case.
SemVerSuffix_to_string_lowercase(m) ==
    SuffixKeys[CHOOSE i \in 1..Len(SuffixNames) : SuffixNames[i] = m]

\* SemVerSuffix Display
SemVerSuffix_to_string(m) ==
    SuffixTexts[CHOOSE i \in 1..Len(SuffixNames) : SuffixNames[i] = m]

\* SemVerSuffix::default()
SemVerSuffix_default == "P"

ShortMonths == <<<<"j", "a", "n">>, <<"f", "e", "b">>, <<"m", "a", "r">>, <<"a", "p", "r">>, <<"m", "a", "y">>, <<"j", "u", "n">>, <<"j", "u", "l">>, <<"a", "u", "g">>, <<"s", "e", "p">>, <<"o", "c", "t">>, <<"n", "o", "v">>, <<"d", "e", "c">>>>

LongMonthSuffixes == <<<<"u", "a", "r", "y">>,
                       <<"r", "u", "a", "r", "y">>,
                       <<"c", "h">>,
                       <<"i", "l">>,
                       <<>>,
                       <<"e">>,
                       <<"y">>,
                       <<"u", "s", "t">>,
                       <<"t", "e", "m", "b", "e", "r">>,
                       <<"o", "b", "e", "r">>,
                       <<"e", "m", "b", "e", "r">>,
                       <<"e", "m", "b", "e", "r">>>>

\* str::parse::<Month> (chrono): a three-letter month name, in any case,
\* optionally completed to the full name, and nothing after it.
Month_from_str(t) ==
    LET low  == to_lowercase(t)
        hits == IF Len(low) < 3 THEN {}
                ELSE {m \in 1..12 : SubSeq(low, 1, 3) = ShortMonths[m]}
    IN IF hits = {} THEN [ok |-> FALSE, val |-> 0]
       ELSE LET m    == CHOOSE x \in hits : TRUE
                rest == SubSeq(low, 4, Len(low))
                suf  == LongMonthSuffixes[m]
                left == IF Len(rest) >= Len(suf) /\ SubSeq(rest, 1, Len(suf)) = suf
                        THEN SubSeq(rest, Len(suf) + 1, Len(rest))
                        ELSE rest
            IN IF left = <<>> THEN [ok |-> TRUE, val |-> m]
               ELSE [ok |-> FALSE, val |-> 0]

----------------------------------------------------------------------------
(* SemVer *)

NoneI32 == [some |-> FALSE, val |-> 0]
SomeI32(n) == [some |-> TRUE, val |-> n]

\* Option<SemVerPair>
NoSuffix == [some |-> FALSE, suffix |-> "P", version |-> NoneI32]
SemVerPair(suffix, version) == [some |-> TRUE, suffix |-> suffix, version |-> version]

SemVer(prefix, major, minor, patch, suffix) ==
    [prefix |-> prefix, major |-> major, minor |-> minor, patch |-> patch,
     suffix |-> suffix]

\* The value held where no SemVer exists.
NoSemVer ==
    SemVer(NoPrefix, ZeroPaddedInt(U32Zero, 0), ZeroPaddedInt(U32Zero, 0),
           ZeroPaddedInt(U32Zero, 0), NoSuffix)

OkResult(v) == [kind |-> "Ok", v |-> v]
ErrResult == [kind |-> "Err", v |-> NoSemVer]
PanicResult == [kind |-> "Panic", v |-> NoSemVer]
NoResult == [kind |-> "None", v |-> NoSemVer]

\* Vec::remove(i), i counted from 1 here
Remove(parts, i) == SubSeq(parts, 1, i - 1) \o SubSeq(parts, i + 1, Len(parts))

Release == <<"r", "e", "l", "e", "a", "s", "e">>

\* Stage 1: the prefix, and parts with a prefix or "release" token removed.
PrefixStage(parts) ==
    LET prefix == SemVerPrefix_from_str(parts[1])
    IN [prefix |-> prefix,
        parts  |-> IF prefix.some \/ parts[1] = Release THEN Remove(parts, 1) ELSE parts]

\* Variant: the month's number written with two digits.
MonthStage_padded(parts) ==
    LET month == Month_from_str(parts[2])
        two   == IF month.val < 10 THEN <<"0">> \o NatDecimal(month.val)
                 ELSE NatDecimal(month.val)
    IN IF month.ok THEN <<parts[1], two>> \o SubSeq(parts, 3, Len(parts)) ELSE parts

\* Month name as the second component: replaced by the month's number.
MonthStage(parts) ==
    LET month == Month_from_str(parts[2])
    IN IF month.ok
       THEN <<parts[1], NatDecimal(month.val)>> \o SubSeq(parts, 3, Len(parts))
       ELSE parts

\* match parts.len(): two parts get a "0" pushed (at most one is an error).
ArityStage(parts) == IF Len(parts) = 2 THEN Append(parts, <<"0">>) ELSE parts

\* Stage 2: the suffix keyword at parts[3], or a "v" there, is removed.
SuffixStage(parts) ==
    IF Len(parts) >= 4
    THEN LET suffix_part == SemVerSuffix_from_str(parts[4])
         IN IF suffix_part.some
            THEN [suffix_part |-> suffix_part, parts |-> Remove(parts, 4)]
            ELSE IF parts[4] = <<"v">>
                 THEN [suffix_part |-> suffix_part, parts |-> Remove(parts, 4)]
                 ELSE [suffix_part |-> suffix_part, parts |-> parts]
    ELSE [suffix_part |-> NoMarker, parts |-> parts]

\* Variant: no default marker, so a number without keyword is dropped.
SuffixVersionStage_no_default(parts, suffix_part) ==
    IF Len(parts) >= 4
    THEN LET n == ParseI32(parts[4])
         IN IF ~n.ok
            THEN [panic |-> TRUE, parts |-> parts, suffix |-> NoSuffix]
            ELSE [panic  |-> FALSE,
                  parts  |-> Remove(parts, 4),
                  suffix |-> IF suffix_part.some
                             THEN SemVerPair(suffix_part.suffix, SomeI32(n.val))
                             ELSE NoSuffix]
    ELSE [panic  |-> FALSE,
          parts  |-> parts,
          suffix |-> IF suffix_part.some
                     THEN SemVerPair(suffix_part.suffix, NoneI32)
                     ELSE NoSuffix]

\* Stage 3: the suffix version at parts[3]; parse::<i32>().unwrap() panics.
SuffixVersionStage(parts, suffix_part) ==
    IF Len(parts) >= 4
    THEN LET n == ParseI32(parts[4])
         IN IF ~n.ok
            THEN [panic |-> TRUE, parts |-> parts, suffix |-> NoSuffix]
            ELSE [panic  |-> FALSE,
                  parts  |-> Remove(parts, 4),
                  suffix |-> SemVerPair(IF suffix_part.some THEN suffix_part.suffix
                                        ELSE SemVerSuffix_default,
                                        SomeI32(n.val))]
    ELSE [panic  |-> FALSE,
          parts  |-> parts,
          suffix |-> IF suffix_part.some
                     THEN SemVerPair(suffix_part.suffix, NoneI32)
                     ELSE NoSuffix]

\* Variant: the last three parts instead of the first three.
IntegerParts_last(parts) == SubSeq(parts, Len(parts) - 2, Len(parts))

\* parts.iter().take(3)
IntegerParts(parts) == SubSeq(parts, 1, 3)

\* The body of from_str from the arity match on, for parts of length >= 2.
FromParts(prefix, parts2) ==
    IF Len(parts2) <= 1 THEN ErrResult
    ELSE LET parts3 == ArityStage(parts2)
             kw     == SuffixStage(parts3)
             ver    == SuffixVersionStage(kw.parts, kw.suffix_part)
         IN IF ver.panic THEN PanicResult
            ELSE LET three == IntegerParts(ver.parts)
                     major == ZeroPaddedInt_from_str(three[1])
                     minor == ZeroPaddedInt_from_str(three[2])
                     patch == ZeroPaddedInt_from_str(three[3])
                 IN IF ~major.ok \/ ~minor.ok \/ ~patch.ok THEN PanicResult
                    ELSE OkResult(SemVer(prefix, major.val, minor.val, patch.val,
                                         ver.suffix))

\* impl FromStr for SemVer.  parts[1] is indexed before the length is matched:
\* with fewer than two parts left the index is out of bounds and panics.
from_str(s) ==
    LET parts0 == Tokens(s)
    IN IF parts0 = <<>> THEN ErrResult
       ELSE LET st == PrefixStage(parts0)
            IN IF Len(st.parts) < 2 THEN PanicResult
               ELSE FromParts(st.prefix, MonthStage(st.parts))

\* impl Display for SemVer
SemVer_to_string(v) ==
    (IF v.prefix.some THEN SemVerPrefix_to_string(v.prefix.prefix) ELSE <<>>)
    \o ZeroPaddedInt_fmt(v.major) \o <<".">>
    \o ZeroPaddedInt_fmt(v.minor) \o <<".">>
    \o ZeroPaddedInt_fmt(v.patch)
    \o (IF v.suffix.some
        THEN <<"-">> \o SemVerSuffix_to_string(v.suffix.suffix)
                     \o (IF v.suffix.version.some
                         THEN I32ToString(v.suffix.version.val) ELSE <<>>)
        ELSE <<>>)

----------------------------------------------------------------------------
(* ComposerChecker *)

\* The alternatives of the regex group `suffix`.
RegexSuffixes == {<<"d", "e", "v">>, <<"d">>, <<"p", "a", "t", "c", "h">>, <<"p">>, <<"a", "l", "p", "h", "a">>, <<"a">>, <<"b", "e", "t", "a">>, <<"b">>, <<"R", "C">>}

AllDigits(s) == \A i \in 1..Len(s) : IsDigit(s[i])

\* The end of the longest run of digits of s that starts at i (i - 1: no digit).
RECURSIVE DigitRunEnd(_, _)
DigitRunEnd(s, i) ==
    IF i <= Len(s) /\ IsDigit(s[i]) THEN DigitRunEnd(s, i + 1) ELSE i - 1

\* (-(suffix)(\d+)?)?$ on the text after the patch digits
MatchesSuffixTail(t) ==
    \/ t = <<>>
    \/ /\ t[1] = "-"
       /\ \E m \in RegexSuffixes :
             /\ Len(t) >= 1 + Len(m)
             /\ SubSeq(t, 2, 1 + Len(m)) = m
             /\ AllDigits(SubSeq(t, 2 + Len(m), Len(t)))

\* ComposerChecker::is_valid: ^v?\d+\.\d+\.\d+(-(suffix)(\d+)?)?$
is_valid(version) ==
    LET s  == IF version # <<>> /\ version[1] = "v" THEN Tail(version) ELSE version
        e1 == DigitRunEnd(s, 1)
        e2 == DigitRunEnd(s, e1 + 2)
        e3 == DigitRunEnd(s, e2 + 2)
    IN /\ e1 >= 1
       /\ e1 + 1 <= Len(s) /\ s[e1 + 1] = "."
       /\ e2 >= e1 + 2
       /\ e2 + 1 <= Len(s) /\ s[e2 + 1] = "."
       /\ e3 >= e2 + 2
       /\ MatchesSuffixTail(SubSeq(s, e3 + 1, Len(s)))

----------------------------------------------------------------------------
(* The caller: it parses a string, increments and renders the value, checks *)
(* the rendered text and parses it again.                                   *)

\* The chunks the input strings are made of.
Vocabulary ==
    {<<>>,
     <<"0", "9">>,
     <<"9", "9">>,
     <<"4", "2", "9", "4", "9", "6", "7", "2", "9", "5">>,
     <<"V">>,
     <<"r", "e", "l", "e", "a", "s", "e">>,
     <<"N", "o", "v">>,
     <<"J", "a", "n", "u", "a", "r", "y">>,
     <<"R", "C">>}

DelimiterCycle == <<".", "-", "_">>

\* The chunks joined, the delimiters taken in turn.
RECURSIVE JoinFrom(_, _)
JoinFrom(chunks, i) ==
    IF i > Len(chunks) THEN <<>>
    ELSE (IF i = 1 THEN <<>> ELSE <<DelimiterCycle[((i - 2) % 3) + 1]>>)
         \o chunks[i] \o JoinFrom(chunks, i + 1)

Join(chunks) == JoinFrom(chunks, 1)

OverflowOutcomes == {"panic", "wrap"}

NoText == [some |-> FALSE, text |-> <<>>]
SomeText(t) == [some |-> TRUE, text |-> t]

VARIABLES
    input,      \* the string handed to from_str
    pc,         \* where the caller is: start, value, longer, text, checked, done,
                \* failed, panicked
    result,     \* what from_str(input) returned
    semver,     \* the SemVer the caller holds
    incrs,      \* increments applied to semver
    extends,    \* chunks appended to the input after the first parse
    rendered,   \* semver.to_string()
    valid,      \* ComposerChecker::is_valid(rendered): "unknown", "true", "false"
    reparsed    \* from_str(rendered)

vars == <<input, pc, result, semver, incrs, extends, rendered, valid, reparsed>>

PcAfter(r) == IF r.kind = "Ok" THEN "value" ELSE IF r.kind = "Err" THEN "failed" ELSE "panicked"

Init ==
    /\ \E n \in 0..MaxChunks :
          \E chunks \in [1..n -> Vocabulary] : input = Join(chunks)
    /\ pc = "start"
    /\ result = NoResult
    /\ semver = NoSemVer
    /\ incrs = 0
    /\ extends = 0
    /\ rendered = NoText
    /\ valid = "unknown"
    /\ reparsed = NoResult

\* SemVer::from_str(input)
FromStr ==
    /\ pc = "start"
    /\ result' = from_str(input)
    /\ semver' = result'.v
    /\ pc' = PcAfter(result')
    /\ UNCHANGED <<input, incrs, extends, rendered, valid, reparsed>>

\* SemVer::from_str of the input with one more delimiter and chunk at its end:
\* the caller keeps the first value and compares the new result with it.
FromStrLonger ==
    /\ pc \in {"value", "longer"}
    /\ result.kind = "Ok"
    /\ incrs = 0
    /\ extends < MaxExtend
    /\ \E chunk \in Vocabulary :
          input' = input \o <<DelimiterCycle[(extends % 3) + 1]>> \o chunk
    /\ extends' = extends + 1
    /\ result' = from_str(input')
    /\ pc' = IF result'.kind = "Panic" THEN "panicked" ELSE "longer"
    /\ UNCHANGED <<semver, incrs, rendered, valid, reparsed>>

\* SemVer::increment_major
increment_major(v, onOverflow) ==
    LET r == ZeroPaddedInt_add(v.major, onOverflow)
    IN [ok |-> r.ok, val |-> [v EXCEPT !.major = r.val]]

\* SemVer::increment_minor
increment_minor(v, onOverflow) ==
    LET r == ZeroPaddedInt_add(v.minor, onOverflow)
    IN [ok |-> r.ok, val |-> [v EXCEPT !.minor = r.val]]

\* SemVer::increment_patch
increment_patch(v, onOverflow) ==
    LET r == ZeroPaddedInt_add(v.patch, onOverflow)
    IN [ok |-> r.ok, val |-> [v EXCEPT !.patch = r.val]]

Incremented(r) ==
    /\ pc = "value"
    /\ incrs < MaxIncr
    /\ incrs' = incrs + 1
    /\ IF r.ok THEN semver' = r.val /\ pc' = pc
               ELSE semver' = semver /\ pc' = "panicked"
    /\ UNCHANGED <<input, result, extends, rendered, valid, reparsed>>

IncrementMajor ==
    \E o \in OverflowOutcomes : Incremented(increment_major(semver, o))

IncrementMinor ==
    \E o \in OverflowOutcomes : Incremented(increment_minor(semver, o))

IncrementPatch ==
    \E o \in OverflowOutcomes : Incremented(increment_patch(semver, o))

\* semver.to_string()
Render ==
    /\ pc = "value"
    /\ rendered' = SomeText(SemVer_to_string(semver))
    /\ pc' = "text"
    /\ UNCHANGED <<input, result, semver, incrs, extends, valid, reparsed>>

\* checker.is_valid(&rendered)
IsValid ==
    /\ pc = "text"
    /\ valid' = IF is_valid(rendered.text) THEN "true" ELSE "false"
    /\ pc' = "checked"
    /\ UNCHANGED <<input, result, semver, incrs, extends, rendered, reparsed>>

\* SemVer::from_str(&rendered)
Reparse ==
    /\ pc = "checked"
    /\ reparsed' = from_str(rendered.text)
    /\ pc' = IF reparsed'.kind = "Panic" THEN "panicked" ELSE "done"
    /\ UNCHANGED <<input, result, semver, incrs, extends, rendered, valid>>

Next ==
    \/ FromStr
    \/ FromStrLonger
    \/ IncrementMajor
    \/ IncrementMinor
    \/ IncrementPatch
    \/ Render
    \/ IsValid
    \/ Reparse

Spec == Init /\ [][Next]_vars

----------------------------------------------------------------------------
(* Vocabulary of the properties below *)

\* from_str has just been called on `input`, and `result` is what it produced
\* (nothing the caller does afterwards changes either).
Parsed == result.kind # "None" /\ incrs = 0 /\ ~rendered.some

\* The tokens left after the prefix stage.
TokensAfterPrefix == PrefixStage(Tokens(input)).parts

\* T: the tokens after the prefix, month and arity stages (>= 2 tokens left).
TokensAfterArity == ArityStage(MonthStage(TokensAfterPrefix))

\* The month names, full and abbreviated, in calendar order.
MonthNames ==
    <<<<"j", "a", "n", "u", "a", "r", "y">>,
      <<"f", "e", "b", "r", "u", "a", "r", "y">>,
      <<"m", "a", "r", "c", "h">>,
      <<"a", "p", "r", "i", "l">>,
      <<"m", "a", "y">>,
      <<"j", "u", "n", "e">>,
      <<"j", "u", "l", "y">>,
      <<"a", "u", "g", "u", "s", "t">>,
      <<"s", "e", "p", "t", "e", "m", "b", "e", "r">>,
      <<"o", "c", "t", "o", "b", "e", "r">>,
      <<"n", "o", "v", "e", "m", "b", "e", "r">>,
      <<"d", "e", "c", "e", "m", "b", "e", "r">>>>

MonthNumberOf(t) ==
    IF \E m \in 1..12 : t \in {MonthNames[m], SubSeq(MonthNames[m], 1, 3)}
    THEN CHOOSE m \in 1..12 : t \in {MonthNames[m], SubSeq(MonthNames[m], 1, 3)}
    ELSE 0

IsMonthName(t) == MonthNumberOf(t) # 0

IsKeyword(t) == \E i \in 1..Len(SuffixKeys) : SuffixKeys[i] = t

KeywordOf(t) == SuffixNames[CHOOSE i \in 1..Len(SuffixKeys) : SuffixKeys[i] = t]

IsNumber(t) == ParseU32(t).ok

\* v + 1 as a number, 2^32 included (hi = LimbBase).
Successor(v) == IF v.lo < LimbBase - 1 THEN U32(v.hi, v.lo + 1) ELSE U32(v.hi + 1, 0)

\* The three numeric segments of the rendered text.
RenderedSegments ==
    LET body == IF semver.prefix.some THEN Tail(rendered.text) ELSE rendered.text
    IN SubSeq(split(body), 1, 3)

\* A segment shows z: z's value, at least z.width characters, all of them
\* digits, and zeros in front only up to z.width.
Shows(seg, z) ==
    /\ AllDigits(seg)
    /\ ParseU32(seg) = [ok |-> TRUE, val |-> z.value]
    /\ Len(seg) >= z.width
    /\ Len(seg) > z.width => seg[1] # "0"

----------------------------------------------------------------------------
(* C1 *)

\* C1: an input with fewer than 2 tokens left after the prefix stage makes
\* from_str return Err(ParseSemVerError): no abort, no value.
C1_TooFewTokensIsErr ==
    (Parsed /\ Len(TokensAfterPrefix) < 2) => result.kind = "Err"

(* C2 *)

\* The input passes the arity and suffix stages.
ReachesTriple ==
    /\ Len(TokensAfterPrefix) >= 2
    /\ LET kw == SuffixStage(TokensAfterArity)
       IN ~SuffixVersionStage(kw.parts, kw.suffix_part).panic

\* C2: when the input reaches the numeric triple and one of the first three
\* tokens is no non-negative integer, from_str returns Err(ParseSemVerError).
C2_NonNumericTripleIsErr ==
    (Parsed /\ ReachesTriple /\ \E i \in 1..3 : ~IsNumber(TokensAfterArity[i]))
        => result.kind = "Err"

(* C3 *)

C4_ReparseIdempotent ==
    (reparsed.kind # "None" /\ incrs = 0) => reparsed = OkResult(result.v)

C4_Witness ==
    /\ reparsed.kind = "Ok"
    /\ incrs = 0
    /\ IsMonthName(TokensAfterPrefix[2])
    /\ result.v.major.value = U32(0, 9) /\ result.v.major.width = 2
    /\ result.v.suffix.some /\ ~result.v.suffix.version.some

(* C5 *)

IncrementsOnly(field) ==
    /\ pc' = "value"
    /\ semver'[field] = ZeroPaddedInt(Successor(semver[field].value), semver[field].width)
    /\ \A f \in {"prefix", "major", "minor", "patch", "suffix"} \ {field} :
          semver'[f] = semver[f]

\* C5: each increment leaves the named field with its old value + 1 and its
\* width, and every other field as it was, after any sequence of increments.
C5_IncrementFrame ==
    [][/\ IncrementMajor => IncrementsOnly("major")
       /\ IncrementMinor => IncrementsOnly("minor")
       /\ IncrementPatch => IncrementsOnly("patch")]_vars

\* The frame and the + 1 of C5 do hold for every value below 4294967295.
NotAtMax(field) == semver[field].value # U32Max

C5_FrameBelowMax ==
    [][/\ (IncrementMajor /\ NotAtMax("major")) => IncrementsOnly("major")
       /\ (IncrementMinor /\ NotAtMax("minor")) => IncrementsOnly("minor")
       /\ (IncrementPatch /\ NotAtMax("patch")) => IncrementsOnly("patch")]_vars

(* C6 *)

\* C6: each of major, minor and patch is rendered as its value in decimal,
\* zero-padded to its stored width and never truncated (length
\* max(width, digits)); the width stored by the parser is the character count
\* of the component's token.
C6_WidthPreservingRendering ==
    /\ rendered.some =>
          /\ Shows(RenderedSegments[1], semver.major)
          /\ Shows(RenderedSegments[2], semver.minor)
          /\ Shows(RenderedSegments[3], semver.patch)
    /\ (Parsed /\ result.kind = "Ok") =>
          LET T == TokensAfterArity
          IN /\ result.v.major.width = Len(T[1])
             /\ result.v.minor.width = Len(T[2])
             /\ result.v.patch.width = Len(T[3])

C6_Witness ==
    /\ rendered.some
    /\ incrs > 0
    /\ semver.major = ZeroPaddedInt(U32(0, 10), 2) /\ result.v.major.value = U32(0, 9)
    /\ semver.minor = ZeroPaddedInt(U32(0, 100), 2)
    /\ Len(RenderedSegments[2]) = 3

(* C7 *)

\* C7: an increment never fails: it neither aborts nor wraps, the named
\* field's value is the old value + 1 even from 4294967295.
C7_IncrementNeverFails ==
    [][/\ IncrementMajor =>
            pc' # "panicked" /\ semver'.major.value = Successor(semver.major.value)
       /\ IncrementMinor =>
            pc' # "panicked" /\ semver'.minor.value = Successor(semver.minor.value)
       /\ IncrementPatch =>
            pc' # "panicked" /\ semver'.patch.value = Successor(semver.patch.value)]_vars

(* C8 *)

\* C8: on a successful parse, with T the tokens after the arity stage: no
\* suffix iff T has 3 tokens, or 3 tokens and then "v"; a keyword at T[3] is
\* the marker, with T[4] as the number when present; otherwise the marker is
\* P and the number is T[3], or T[4] when T[3] is "v".  (T counted from 0.)
C8_SuffixConstruction ==
    (Parsed /\ result.kind = "Ok") =>
        LET T   == TokensAfterArity
            suf == result.v.suffix
        IN /\ ~suf.some <=> (Len(T) = 3 \/ (Len(T) = 4 /\ T[4] = <<"v">>))
           /\ suf.version.some => suf.some
           /\ (Len(T) >= 4 /\ IsKeyword(T[4])) =>
                 /\ suf.suffix = KeywordOf(T[4])
                 /\ suf.version = IF Len(T) >= 5 THEN SomeI32(ParseI32(T[5]).val)
                                  ELSE NoneI32
           /\ (Len(T) >= 4 /\ ~IsKeyword(T[4]) /\ suf.some) =>
                 /\ suf.suffix = "P"
                 /\ suf.version = SomeI32(ParseI32(IF T[4] = <<"v">> THEN T[5] ELSE T[4]).val)

C8_Witness ==
    /\ Parsed /\ result.kind = "Ok"
    /\ Len(TokensAfterArity) >= 5
    /\ TokensAfterArity[4] = <<"v">>
    /\ result.v.suffix = SemVerPair("P", SomeI32(9))

(* C9 *)

\* C9: a month name at token index 1 (after the prefix stage) becomes its
\* number 1..12 without zero padding, so the minor has that value and the
\* number's width; a month name at index 0 or 2 is left as it is and the
\* parse does not succeed; no other token is changed by the month stage.
C9_MonthOnlyAtIndexOne ==
    Parsed =>
        LET P == TokensAfterPrefix
        IN /\ (result.kind = "Ok" /\ IsMonthName(P[2])) =>
                 result.v.minor =
                     ZeroPaddedInt(U32(0, MonthNumberOf(P[2])),
                                   IF MonthNumberOf(P[2]) < 10 THEN 1 ELSE 2)
           /\ (\E i \in {1, 3} : i <= Len(P) /\ IsMonthName(P[i])) => result.kind # "Ok"
           /\ Len(P) >= 2 =>
                 LET M == MonthStage(P)
                 IN \A i \in (1..Len(P)) \ {2} : M[i] = P[i]

C9_Witness ==
    /\ Parsed /\ result.kind = "Ok"
    /\ Len(Tokens(input)) > Len(TokensAfterPrefix)
    /\ TokensAfterPrefix[2] = MonthNames[1]
    /\ result.v.minor = ZeroPaddedInt(U32(0, 1), 1)

(* C10 *)

\* C10: when a parse succeeded with a suffix number, parsing the same input
\* with further chunks appended succeeds with exactly the same SemVer.
C10_TrailingTokensIgnored ==
    (extends > 0 /\ semver.suffix.version.some) => result = OkResult(semver)

C10_Witness ==
    /\ extends > 0
    /\ semver.suffix.version.some
    /\ result = OkResult(semver)
    /\ Tokens(input)[Len(Tokens(input))] = Release


====
